---- MODULE Spec2Model ----
(***************************************************************************)
(* Model of cpp/open3d/core/linalg/LU.cpp: LU_with_ipiv (validation,       *)
(* column-major copy, backend dispatch, copy back), LU, OutputToPLU and    *)
(* GetColPermutation.  Tensors are records over a heap of storage blobs so *)
(* that views (T) alias their source and copies (Clone, Contiguous) do     *)
(* not.  Matrix values are integers; the backend kernel is modelled by its *)
(* getrf contract.                                                         *)
(***************************************************************************)
EXTENDS Integers, Sequences, FiniteSets, TLC

\* ------------------------------------------------------------------ bounds
\* Largest matrix dimension of a valid input.
MaxN == 3
\* Entries of the factors the backend returns are drawn from 0..MaxVal+1.
MaxVal == 1
\* Shapes of rejected inputs: rank 0..MaxRank, each dimension 0..MaxDim.
MaxRank == 3
MaxDim == 4

\* ------------------------------------------------------- tensor abstraction
Floats == {"Float32", "Float64"}
Dtypes == Floats \cup {"Int32", "Int64"}
Devices == {"CPU:0", "CUDA:0"}

\* A zero-based array of length n.
Arr(n, f(_)) == [k \in 0..(n - 1) |-> f(k)]
\* A zero-based n x n matrix.
Mat(n, f(_, _)) == [r \in 0..(n - 1) |-> [c \in 0..(n - 1) |-> f(r, c)]]

\* Storage that was never allocated.
NoData == [k \in {} |-> 0]

RECURSIVE NumElements(_)
NumElements(shape) ==
    IF shape = <<>> THEN 1 ELSE Head(shape) * NumElements(Tail(shape))

\* Row-major strides of a shape.
RECURSIVE DefaultStrides(_)
DefaultStrides(shape) ==
    IF shape = <<>> THEN <<>>
    ELSE <<NumElements(Tail(shape))>> \o DefaultStrides(Tail(shape))

\* Tensor(): the default-constructed tensor, shape {0}, no storage.
UndefinedTensor ==
    [dtype |-> "Undefined", device |-> "CPU:0", shape |-> <<0>>,
     strides |-> <<1>>, blob |-> "none"]

\* Tensor::Empty(shape, dtype, device) on storage blob b.
Empty(shape, dtype, device, b) ==
    [dtype |-> dtype, device |-> device, shape |-> shape,
     strides |-> DefaultStrides(shape), blob |-> b]

\* Tensor::T() of a 2-D tensor: a view on the same storage, axes exchanged.
T(t) ==
    [t EXCEPT !.shape = <<t.shape[2], t.shape[1]>>,
              !.strides = <<t.strides[2], t.strides[1]>>]

IsContiguous(t) == t.strides = DefaultStrides(t.shape)

\* Element (r, c) of a 2-D tensor over heap h.
At(h, t, r, c) == h[t.blob][r * t.strides[1] + c * t.strides[2]]

\* The row-major storage of a fresh copy of the 2-D tensor t.
RowMajorCopy(h, t) ==
    [k \in 0..(t.shape[1] * t.shape[2] - 1) |->
        At(h, t, k \div t.shape[2], k % t.shape[2])]

\* The logical matrix a square 2-D tensor shows.
View(h, t) == Mat(t.shape[1], LAMBDA r, c : At(h, t, r, c))

\* -------------------------------------------------------------- matrices
Eye(n) == Mat(n, LAMBDA r, c : IF r = c THEN 1 ELSE 0)

Transpose(M, n) == Mat(n, LAMBDA r, c : M[c][r])

RECURSIVE DotFrom(_, _, _, _, _)
DotFrom(X, Y, r, c, k) ==
    IF k < 0 THEN 0 ELSE X[r][k] * Y[k][c] + DotFrom(X, Y, r, c, k - 1)

\* Tensor::Matmul.
Matmul(X, Y, n) == Mat(n, LAMBDA r, c : DotFrom(X, Y, r, c, n - 1))

\* Tensor::Thiul: upper triangle with diagonal, and strict lower triangle
\* with unit diagonal.
ThiulUpper(M, n) == Mat(n, LAMBDA r, c : IF c >= r THEN M[r][c] ELSE 0)
ThiulLower(M, n) ==
    Mat(n, LAMBDA r, c : IF r > c THEN M[r][c] ELSE IF r = c THEN 1 ELSE 0)

\* Tensor::IndexGet({index}) on a 2-D tensor: gathers rows.
IndexGet(M, index, n) == Mat(n, LAMBDA r, c : M[index[r]][c])

Minor(M, n, dr, dc) ==
    Mat(n - 1, LAMBDA r, c :
        M[IF r < dr THEN r ELSE r + 1][IF c < dc THEN c ELSE c + 1])

Sign(k) == IF k % 2 = 0 THEN 1 ELSE -1

RECURSIVE Det(_, _)
RECURSIVE DetRow(_, _, _)
Det(M, n) == IF n = 0 THEN 1 ELSE DetRow(M, n, n - 1)
DetRow(M, n, c) ==
    IF c < 0 THEN 0
    ELSE Sign(c) * M[0][c] * Det(Minor(M, n, 0, c), n - 1) + DetRow(M, n, c - 1)

\* Tensor::Inverse: the general inverse, adjugate over determinant.
Abs(v) == IF v < 0 THEN -v ELSE v
Inverse(M, n) ==
    LET d == Det(M, n)
    IN  Mat(n, LAMBDA r, c :
            (Sign(r + c) * Det(Minor(M, n, c, r), n - 1) * (IF d < 0 THEN -1 ELSE 1))
                \div Abs(d))

\* ------------------------------------------------------- backend kernels
\* The row exchanges a pivot array records, replayed on a matrix: for
\* k = 0..n-1 in order, row k is interchanged with row piv[k]-1.
SwapRows(M, x, y) == [M EXCEPT ![x] = M[y], ![y] = M[x]]

RECURSIVE RowExchanges(_, _, _, _)
RowExchanges(M, piv, k, n) ==
    IF k >= n THEN M
    ELSE RowExchanges(SwapRows(M, k, piv[k] - 1), piv, k + 1, n)

RECURSIVE UndoRowExchanges(_, _, _)
UndoRowExchanges(M, piv, k) ==
    IF k < 0 THEN M
    ELSE UndoRowExchanges(SwapRows(M, k, piv[k] - 1), piv, k - 1)

\* The matrix a column-major n x n buffer holds.
FromColMajor(buf, n) == Mat(n, LAMBDA r, c : buf[c * n + r])
\* The column-major buffer of a matrix.
ToColMajor(M, n) == [k \in 0..(n * n - 1) |-> M[k % n][k \div n]]

\* getrf: the buffer is overwritten by the combined L\U of the matrix it
\* held with the row exchanges of piv applied in order.
GetrfContract(bufIn, n, piv, bufOut) ==
    LET LUm == FromColMajor(bufOut, n)
    IN  Matmul(ThiulLower(LUm, n), ThiulUpper(LUm, n), n)
            = RowExchanges(FromColMajor(bufIn, n), piv, 0, n)

\* Combined buffers the kernel returns in this model: strict lower part lo,
\* strict upper part up, diagonal up + 1.
Combined(n, lo, up) ==
    Mat(n, LAMBDA r, c : IF r > c THEN lo ELSE IF c > r THEN up ELSE up + 1)

NoFact == [ipiv |-> NoData, lu |-> NoData]

\* ------------------------------------------------------------------ state
VARIABLES
    A,            \* the input tensor (descriptor)
    heap,         \* storage blobs: a (of A), b (of the clone), c (of the result)
    input,        \* the input as it was before the first call
    build_cuda,   \* BUILD_CUDA_MODULE
    fact,         \* what the kernel answers for this input
    pc,           \* position in LU
    permute_l,
    called,       \* permute_l values LU was already called with
    err,          \* the fatal error raised, or "none"
    logged,       \* "Unimplemented device." was logged
    kernel,       \* the kernel invoked by the current call
    ipiv, output, upper, lower, permutation,
    full_ipiv, i, \* locals of GetColPermutation
    oob,          \* a pivot entry outside ipiv's storage was read
    prev          \* the triple the previous call returned

vars == <<A, heap, input, build_cuda, fact, pc, permute_l, called, err, logged,
          kernel, ipiv, output, upper, lower, permutation, full_ipiv, i, oob, prev>>

None == NoData
NoIpiv == [dtype |-> "Undefined", device |-> "CPU:0", shape |-> <<0>>, data |-> NoData]

\* ------------------------------------------------------------------ inputs
ToRowMajor(M, n) == [k \in 0..(n * n - 1) |-> M[k \div n][k % n]]

Shapes == UNION {[1..k -> 0..MaxDim] : k \in 0..MaxRank}

\* A tensor lives on the accelerator only in a build that supports it; the
\* remaining combination is the degrade path of LU_with_ipiv.
Builds == {<<"CPU:0", FALSE>>, <<"CUDA:0", TRUE>>}

\* Variant: the shape is checked before the dtype.
ValidationError_ShapeFirst(t) ==
    IF Len(t.shape) # 2 THEN "InvalidRank"
    ELSE IF t.shape[1] # t.shape[2] THEN "NotSquare"
    ELSE IF t.shape[1] = 0 THEN "EmptyDimension"
    ELSE IF t.dtype # "Float32" /\ t.dtype # "Float64" THEN "UnsupportedDtype"
    ELSE "none"

\* The checks of LU_with_ipiv, in the order the code makes them; LogError
\* throws, so the first failing check decides.
ValidationError(t) ==
    IF t.dtype # "Float32" /\ t.dtype # "Float64" THEN "UnsupportedDtype"
    ELSE IF Len(t.shape) # 2 THEN "InvalidRank"
    ELSE IF t.shape[1] # t.shape[2] THEN "NotSquare"
    ELSE IF t.shape[1] = 0 THEN "EmptyDimension"
    ELSE "none"

InitWith(t, data, bc, f) ==
    /\ A = t
    /\ heap = [a |-> data, b |-> NoData, c |-> NoData]
    /\ input = [tensor |-> t, data |-> data]
    /\ build_cuda = bc
    /\ fact = f
    /\ pc = "idle"
    /\ permute_l = FALSE
    /\ called = {}
    /\ err = "none"
    /\ logged = FALSE
    /\ kernel = "none"
    /\ ipiv = NoIpiv
    /\ output = UndefinedTensor
    /\ upper = None
    /\ lower = None
    /\ permutation = None
    /\ full_ipiv = None
    /\ i = 0
    /\ oob = FALSE
    /\ prev = None

\* A square float matrix the kernel factorizes: any pivot array with entries
\* in 1..n, any combined buffer of the family, and the A they factorize.
InitFactorizable ==
    \E n \in 1..MaxN, dtype \in Floats, bd \in Builds, lo \in 0..MaxVal, up \in 0..MaxVal :
      \E piv \in [0..(n - 1) -> 1..n] :
        LET lu  == Combined(n, lo, up)
            PA  == Matmul(ThiulLower(lu, n), ThiulUpper(lu, n), n)
            Am  == UndoRowExchanges(PA, piv, n - 1)
        IN  InitWith(Empty(<<n, n>>, dtype, bd[1], "a"), ToRowMajor(Am, n), bd[2],
                     [ipiv |-> piv, lu |-> lu])

\* A square float matrix on the accelerator in a build without BUILD_CUDA_MODULE.
InitUnavailable ==
    \E n \in 1..MaxN, dtype \in Floats, lo \in 0..MaxVal, up \in 0..MaxVal :
        LET lu == Combined(n, lo, up)
            Am == Matmul(ThiulLower(lu, n), ThiulUpper(lu, n), n)
        IN  InitWith(Empty(<<n, n>>, dtype, "CUDA:0", "a"), ToRowMajor(Am, n), FALSE, NoFact)

\* An input one of the four checks rejects.
InitRejected ==
    \E dtype \in Dtypes, shape \in Shapes, bd \in Builds :
        LET t == Empty(shape, dtype, bd[1], "a")
        IN  /\ ValidationError(t) # "none"
            /\ InitWith(t, [k \in 0..(NumElements(shape) - 1) |-> k + 1], bd[2], NoFact)

Init == InitFactorizable \/ InitUnavailable \/ InitRejected

\* ------------------------------------------------------------ LU_with_ipiv
N == A.shape[1]

\* LU(A, permutation, lower, upper, permute_l) is called and LU_with_ipiv
\* validates A (lines 50-73).  The caller asks for the plain factors first
\* and then, for the same A, for the folded ones; a caller that was told the
\* backend is unavailable treats the call as failed and does not call again.
LU(pl) ==
    /\ pc = "idle"
    /\ pl \notin called
    /\ pl = (FALSE \in called)
    /\ ~logged
    /\ permute_l' = pl
    /\ called' = called \cup {pl}
    /\ err' = ValidationError(A)
    /\ pc' = IF ValidationError(A) = "none" THEN "clone" ELSE "error"
    /\ UNCHANGED <<A, heap, input, build_cuda, fact, logged, kernel, ipiv, output,
                   upper, lower, permutation, full_ipiv, i, oob, prev>>

\* Variant: the transposed view is handed on without Clone().
ColMajorOutput_NoClone(h, t) == [tensor |-> T(t), heap |-> h]

\* output = A.T().Clone(): an independent contiguous copy of the transposed
\* view, i.e. A in column-major order.
ColMajorOutput(h, t) ==
    LET v == T(t)
    IN  [tensor |-> Empty(v.shape, v.dtype, v.device, "b"),
         heap   |-> [h EXCEPT !.b = RowMajorCopy(h, v)]]

ColMajorClone ==
    /\ pc = "clone"
    /\ output' = ColMajorOutput(heap, A).tensor
    /\ heap' = ColMajorOutput(heap, A).heap
    /\ pc' = "dispatch"
    /\ UNCHANGED <<A, input, build_cuda, fact, permute_l, called, err, logged, kernel,
                   ipiv, upper, lower, permutation, full_ipiv, i, oob, prev>>

\* The kernel call: the buffer behind A_data is overwritten in place and the
\* pivot array is filled.
KernelWrites(h, b, n, f) == [h EXCEPT ![b] = ToColMajor(f.lu, n)]

Factorize(name, ipiv_dtype) ==
    /\ GetrfContract(heap[output.blob], N, fact.ipiv, ToColMajor(fact.lu, N))
    /\ ipiv' = [dtype |-> ipiv_dtype, device |-> A.device, shape |-> <<N>>,
                data |-> fact.ipiv]
    /\ heap' = KernelWrites(heap, output.blob, N, fact)
    /\ kernel' = name
    /\ pc' = "row_major"
    /\ UNCHANGED <<A, input, build_cuda, fact, permute_l, called, err, logged, output,
                   upper, lower, permutation, full_ipiv, i, oob, prev>>

\* sizeof(OPEN3D_CPU_LINALG_INT) of the build.
OPEN3D_CPU_LINALG_INT_SIZE == 4

IpivDtypeCPU ==
    IF OPEN3D_CPU_LINALG_INT_SIZE = 4 THEN "Int32"
    ELSE IF OPEN3D_CPU_LINALG_INT_SIZE = 8 THEN "Int64"
    ELSE "unsupported"

LUCUDA ==
    /\ pc = "dispatch"
    /\ A.device = "CUDA:0"
    /\ build_cuda
    /\ Factorize("LUCUDA", "Int32")

\* Without BUILD_CUDA_MODULE: LogInfo("Unimplemented device."), nothing else.
Unimplemented ==
    /\ pc = "dispatch"
    /\ A.device = "CUDA:0"
    /\ ~build_cuda
    /\ logged' = TRUE
    /\ pc' = "row_major"
    /\ UNCHANGED <<A, heap, input, build_cuda, fact, permute_l, called, err, kernel,
                   ipiv, output, upper, lower, permutation, full_ipiv, i, oob, prev>>

LUCPU ==
    /\ pc = "dispatch"
    /\ A.device # "CUDA:0"
    /\ IF IpivDtypeCPU = "unsupported"
       THEN /\ err' = "UnsupportedIntegerWidth"
            /\ pc' = "error"
            /\ UNCHANGED <<A, heap, input, build_cuda, fact, permute_l, called, logged,
                           kernel, ipiv, output, upper, lower, permutation, full_ipiv,
                           i, oob, prev>>
       ELSE Factorize("LUCPU", IpivDtypeCPU)

\* Variant: the buffer is returned without the transpose back.
RowMajorOutput_NoTranspose(h, t) == [tensor |-> t, heap |-> h]

\* output = output.T().Contiguous(): Contiguous returns the view itself when
\* it already is contiguous, and a fresh row-major copy otherwise.
RowMajorOutput(h, t) ==
    LET v == T(t)
    IN  IF IsContiguous(v) THEN [tensor |-> v, heap |-> h]
        ELSE [tensor |-> Empty(v.shape, v.dtype, v.device, "c"),
              heap   |-> [h EXCEPT !.c = RowMajorCopy(h, v)]]

\* LU_with_ipiv returns (ipiv, output).
RowMajorBack ==
    /\ pc = "row_major"
    /\ output' = RowMajorOutput(heap, output).tensor
    /\ heap' = RowMajorOutput(heap, output).heap
    /\ pc' = "returned"
    /\ UNCHANGED <<A, input, build_cuda, fact, permute_l, called, err, logged, kernel,
                   ipiv, upper, lower, permutation, full_ipiv, i, oob, prev>>

\* ------------------------------------------------------------- OutputToPLU
\* Entry of OutputToPLU: n, the Thiul split, and the entry of
\* GetColPermutation up to its loop (full_ipiv = Arange(0, n)).
OutputToPLU ==
    /\ pc = "returned"
    /\ upper' = ThiulUpper(View(heap, output), output.shape[1])
    /\ lower' = ThiulLower(View(heap, output), output.shape[1])
    /\ full_ipiv' = Arr(output.shape[1], LAMBDA k : k)
    /\ i' = 0
    /\ pc' = "swap"
    /\ UNCHANGED <<A, heap, input, build_cuda, fact, permute_l, called, err, logged,
                   kernel, ipiv, output, permutation, oob, prev>>

\* Variant: the exchange without the temporary.
SwapStep_NoTemp(full, p, k) ==
    LET f1 == [full EXCEPT ![k] = full[p - 1]]
    IN  [f1 EXCEPT ![p - 1] = f1[k]]

\* Variant: the pivot array read as the permutation itself.
SwapStep_DirectLookup(full, p, k) == [full EXCEPT ![k] = p - 1]

\* Variant: the pivot entry used as a zero-based index (wrapping at n).
SwapStep_ZeroBased(full, p, k) ==
    LET q    == p % (Cardinality(DOMAIN full))
        temp == full[k]
        f1   == [full EXCEPT ![k] = full[q]]
    IN  [f1 EXCEPT ![q] = temp]

\* One iteration of the loop of GetColPermutation, with p = ipiv_ptr[i]:
\*   temp = full[i]; full[i] = full[p - 1]; full[p - 1] = temp.
SwapStep(full, p, k) ==
    LET temp == full[k]
        f1   == [full EXCEPT ![k] = full[p - 1]]
    IN  [f1 EXCEPT ![p - 1] = temp]

\* An iteration that reads an entry ipiv holds.  ipiv.To(CPU, Int32) and
\* full_ipiv.To(device, Int64) change the element type only; the entries,
\* between 1 and n, and the indices, below n, are kept by both.
GetColPermutation ==
    /\ pc = "swap"
    /\ i < output.shape[1]
    /\ i \in DOMAIN ipiv.data
    /\ full_ipiv' = SwapStep(full_ipiv, ipiv.data[i], i)
    /\ i' = i + 1
    /\ UNCHANGED <<A, heap, input, build_cuda, fact, pc, permute_l, called, err, logged,
                   kernel, ipiv, output, upper, lower, permutation, oob, prev>>

\* An iteration that reads ipiv_ptr[i] beyond the storage of ipiv (the loop
\* runs to number_of_rows, not number_of_indices): undefined behaviour.  The
\* read yields some value; one that indexes inside full_ipiv lets the loop
\* go on.
ReadUnallocated ==
    /\ pc = "swap"
    /\ i < output.shape[1]
    /\ i \notin DOMAIN ipiv.data
    /\ oob' = TRUE
    /\ \E g \in 1..output.shape[1] :
           full_ipiv' = SwapStep(full_ipiv, g, i)
    /\ i' = i + 1
    /\ UNCHANGED <<A, heap, input, build_cuda, fact, pc, permute_l, called, err, logged,
                   kernel, ipiv, output, upper, lower, permutation, prev>>

\* The same read faulting, or yielding a value that indexes outside
\* full_ipiv: the process does not survive the call.  A lives in accelerator
\* memory, which the host-side loop does not address.
Fault ==
    /\ pc = "swap"
    /\ i < output.shape[1]
    /\ i \notin DOMAIN ipiv.data
    /\ oob' = TRUE
    /\ pc' = "crashed"
    /\ UNCHANGED <<A, heap, input, build_cuda, fact, permute_l, called, err, logged,
                   kernel, ipiv, output, upper, lower, permutation, full_ipiv, i, prev>>

\* permutation = Eye(n).IndexGet({colPermutation}).Inverse().Contiguous()
Gathered(n, colPermutation) == IndexGet(Eye(n), colPermutation, n)

\* Variant: the gathered matrix returned without Inverse().
PermutationMatrix_NoInverse(n, colPermutation) == Gathered(n, colPermutation)

PermutationMatrix(n, colPermutation) == Inverse(Gathered(n, colPermutation), n)

\* Variant: the fold as lower.Matmul(permutation).
PermuteL_RightProduct(P, L, pl, n) == IF pl THEN Matmul(L, P, n) ELSE L

\* if (permute_l) lower = permutation.Matmul(lower)
PermuteL(P, L, pl, n) == IF pl THEN Matmul(P, L, n) ELSE L

\* The loop is over: the rest of OutputToPLU, and LU returns.
Permutation ==
    /\ pc = "swap"
    /\ i = output.shape[1]
    /\ IF Det(Gathered(i, full_ipiv), i) = 0
       THEN /\ err' = "SingularMatrix"
            /\ pc' = "error"
            /\ UNCHANGED <<permutation, lower>>
       ELSE /\ permutation' = PermutationMatrix(i, full_ipiv)
            /\ lower' = PermuteL(PermutationMatrix(i, full_ipiv), lower, permute_l, i)
            /\ pc' = "done"
            /\ err' = err
    /\ UNCHANGED <<A, heap, input, build_cuda, fact, permute_l, called, logged, kernel,
                   ipiv, output, upper, full_ipiv, i, oob, prev>>

\* The caller takes (P, L, U); the locals of the call are gone.
Return ==
    /\ pc = "done"
    /\ prev' = [permute_l |-> permute_l, permutation |-> permutation,
                lower |-> lower, upper |-> upper]
    /\ pc' = "idle"
    /\ heap' = [heap EXCEPT !.b = NoData, !.c = NoData]
    /\ kernel' = "none"
    /\ ipiv' = NoIpiv
    /\ output' = UndefinedTensor
    /\ upper' = None
    /\ lower' = None
    /\ permutation' = None
    /\ full_ipiv' = None
    /\ i' = 0
    /\ UNCHANGED <<A, input, build_cuda, fact, permute_l, called, err, logged, oob>>

Next ==
    \/ \E pl \in BOOLEAN : LU(pl)
    \/ ColMajorClone
    \/ LUCUDA
    \/ Unimplemented
    \/ LUCPU
    \/ RowMajorBack
    \/ OutputToPLU
    \/ GetColPermutation
    \/ ReadUnallocated
    \/ Fault
    \/ Permutation
    \/ Return

Spec == Init /\ [][Next]_vars

\* ================================================================ properties
\* The input as a matrix (square inputs only).
Am == Mat(input.tensor.shape[1], LAMBDA r, c : input.data[r * input.tensor.shape[2] + c])

\* The zero-based array with the entries of a tuple.
ZeroBased(s) == [k \in 0..(Len(s) - 1) |-> s[k + 1]]

\* The kernel ran in this call: ipiv has n entries, each in 1..n.
Factorized ==
    /\ kernel # "none"
    /\ DOMAIN ipiv.data = 0..(N - 1)
    /\ \A k \in 0..(N - 1) : ipiv.data[k] \in 1..N

ValidationErrors == {"UnsupportedDtype", "InvalidRank", "NotSquare", "EmptyDimension"}

\* C1 as stated: for both values of permute_l the returned triple satisfies
\* P.A = L.U, for every pivot array with entries in 1..n.
C1_PA_Equals_LU ==
    (pc = "done" /\ Factorized) =>
        Matmul(permutation, Am, N) = Matmul(lower, upper, N)

\* C1 amended: the returned triple satisfies P^T.A = L.U (A = P.L.U) when
\* permute_l is false, and A = L.U with the returned L when permute_l is true,
\* for every pivot array with entries in 1..n.
C1_PtA_Equals_LU ==
    (pc = "done" /\ Factorized) =>
        IF permute_l
        THEN Matmul(lower, upper, N) = Am
        ELSE Matmul(Transpose(permutation, N), Am, N) = Matmul(lower, upper, N)

C1_Witness ==
    /\ pc = "done"
    /\ Factorized
    /\ ipiv.data = ZeroBased(<<2, 3, 3>>)
    /\ permutation # Transpose(permutation, N)
    /\ Matmul(permutation, Am, N) # Am

\* C2: the checks are made in the order dtype, rank, squareness, non-zero
\* dimension and the first that fails decides the error raised; an input that
\* passes all four raises none of the four errors.
C2_ValidationOrder ==
    called # {} =>
        /\ A.dtype \notin Floats => (err = "UnsupportedDtype" /\ pc = "error")
        /\ (A.dtype \in Floats /\ Len(A.shape) # 2) =>
               (err = "InvalidRank" /\ pc = "error")
        /\ (A.dtype \in Floats /\ Len(A.shape) = 2 /\ A.shape[1] # A.shape[2]) =>
               (err = "NotSquare" /\ pc = "error")
        /\ (A.dtype \in Floats /\ A.shape = <<0, 0>>) =>
               (err = "EmptyDimension" /\ pc = "error")
        /\ (A.dtype \in Floats /\ Len(A.shape) = 2 /\ A.shape[1] = A.shape[2]
                /\ A.shape[1] # 0) =>
               err \notin ValidationErrors

C2_Witness ==
    /\ A.dtype = "Float32"
    /\ A.shape = <<0, 3>>
    /\ err = "NotSquare"
    /\ pc = "error"

\* Each of 0..n-1 occurs exactly once in f.
IsPermutationVector(f, n) ==
    /\ DOMAIN f = 0..(n - 1)
    /\ \A v \in 0..(n - 1) : Cardinality({k \in 0..(n - 1) : f[k] = v}) = 1

\* Every row and every column of M holds one 1 and zeros otherwise.
IsPermutationMatrix(M, n) ==
    /\ \A r \in 0..(n - 1) : \A c \in 0..(n - 1) : M[r][c] \in {0, 1}
    /\ \A r \in 0..(n - 1) : Cardinality({c \in 0..(n - 1) : M[r][c] = 1}) = 1
    /\ \A c \in 0..(n - 1) : Cardinality({r \in 0..(n - 1) : M[r][c] = 1}) = 1

\* C3: for every pivot array of length n with entries in 1..n the index vector
\* of GetColPermutation holds each of 0..n-1 exactly once after every
\* iteration, and the P of OutputToPLU is a permutation matrix.
C3_PermutationMatrix ==
    /\ (pc = "swap" /\ Factorized) => IsPermutationVector(full_ipiv, N)
    /\ (pc = "done" /\ Factorized) =>
           (IsPermutationVector(full_ipiv, N) /\ IsPermutationMatrix(permutation, N))

C3_Witness ==
    /\ pc = "done"
    /\ Factorized
    /\ N = 3
    /\ ipiv.data = ZeroBased(<<3, 3, 3>>)
    /\ IsPermutationMatrix(permutation, N)
    /\ permutation # Eye(N)

\* C4: for the same A, the call with permute_l = true returns the P and the U
\* of the call with permute_l = false, its L is P.L of that call, and
\* A = L'.U.
C4_PermuteL ==
    (pc = "done" /\ Factorized /\ permute_l /\ prev # None /\ ~prev.permute_l) =>
        /\ permutation = prev.permutation
        /\ upper = prev.upper
        /\ lower = Matmul(prev.permutation, prev.lower, N)
        /\ Matmul(lower, upper, N) = Am

C4_Witness ==
    /\ pc = "done"
    /\ Factorized
    /\ permute_l
    /\ prev # None
    /\ ~prev.permute_l
    /\ lower # prev.lower
    /\ lower = Matmul(prev.permutation, prev.lower, N)

\* C5: GetColPermutation starts from the identity and after k iterations holds
\* the replay of the first k row exchanges; at the end full[j] is the original
\* row at position j; for [2,2,3] the result is [1,0,2], not the direct
\* lookup ipiv[k]-1.
C5_SwapReplay ==
    /\ (pc \in {"swap", "done"} /\ Factorized) =>
           full_ipiv = RowExchanges(Arr(N, LAMBDA k : k), ipiv.data, 0, i)
    /\ (pc = "done" /\ Factorized) =>
           \A r \in 0..(N - 1) :
               RowExchanges(Am, ipiv.data, 0, N)[r] = Am[full_ipiv[r]]
    /\ (pc = "done" /\ Factorized /\ ipiv.data = ZeroBased(<<2, 2, 3>>)) =>
           /\ full_ipiv = ZeroBased(<<1, 0, 2>>)
           /\ full_ipiv # Arr(N, LAMBDA k : ipiv.data[k] - 1)

C5_Witness ==
    /\ pc = "done"
    /\ Factorized
    /\ ipiv.data = ZeroBased(<<2, 2, 3>>)
    /\ full_ipiv = ZeroBased(<<1, 0, 2>>)

\* C6: on an accelerator input without accelerator support the call is a
\* logged no-op: no fatal error, no kernel, no read of a pivot entry that was
\* never allocated, no crash.
C6_LoggedNoOp ==
    (A.device = "CUDA:0" /\ ~build_cuda /\ called # {}) =>
        /\ err = "none"
        /\ kernel = "none"
        /\ ~oob
        /\ pc # "crashed"

\* C7: the identity, with no row exchanges and the identity as combined
\* buffer, yields P = L = U = I for both values of permute_l.
C7_Identity ==
    (/\ pc = "done"
     /\ Factorized
     /\ Am = Eye(N)
     /\ ipiv.data = Arr(N, LAMBDA k : k + 1)
     /\ View(heap, output) = Eye(N)) =>
        (permutation = Eye(N) /\ lower = Eye(N) /\ upper = Eye(N))

C7_Witness ==
    /\ pc = "done"
    /\ Factorized
    /\ N = 3
    /\ permute_l
    /\ Am = Eye(N)
    /\ ipiv.data = Arr(N, LAMBDA k : k + 1)
    /\ permutation = Eye(N)
    /\ lower = Eye(N)
    /\ upper = Eye(N)

\* C8: on every path the descriptor of A (shape, dtype) and every element of
\* A are what they were before the call.
C8_InputUnchanged ==
    /\ A = input.tensor
    /\ heap.a = input.data

C8_Witness ==
    /\ pc = "done"
    /\ Factorized
    /\ N = 3
    /\ View(heap, output) # Am
    /\ heap.b # ToColMajor(Am, N)
    /\ heap.a = input.data

\* C9: with permute_l = false, P is the inverse (transpose) of the rows of the
\* identity gathered by the decoded permutation, and A = P.L.U, equivalently
\* P^T.A = L.U.
C9_A_Equals_PLU ==
    (pc = "done" /\ Factorized /\ ~permute_l) =>
        LET G == Mat(N, LAMBDA r, c : IF c = full_ipiv[r] THEN 1 ELSE 0)
        IN  /\ permutation = Transpose(G, N)
            /\ Matmul(permutation, G, N) = Eye(N)
            /\ Matmul(permutation, Matmul(lower, upper, N), N) = Am
            /\ Matmul(Transpose(permutation, N), Am, N) = Matmul(lower, upper, N)

C9_Witness ==
    /\ pc = "done"
    /\ Factorized
    /\ ~permute_l
    /\ N = 3
    /\ permutation # Transpose(permutation, N)
    /\ lower # Eye(N)
    /\ Matmul(permutation, Matmul(lower, upper, N), N) = Am

\* C10: the buffer handed to the kernel holds A[r][c] at offset c*n+r, the
\* returned output[r][c] is the kernel's buffer at offset c*n+r, and when the
\* kernel left the buffer as it was the output equals A.
C10_Layout ==
    /\ pc = "dispatch" =>
           \A r \in 0..(N - 1) : \A c \in 0..(N - 1) :
               heap[output.blob][c * N + r] = Am[r][c]
    /\ pc = "returned" =>
           \A r \in 0..(N - 1) : \A c \in 0..(N - 1) :
               At(heap, output, r, c) = heap.b[c * N + r]
    /\ (pc = "returned" /\ heap.b = ToColMajor(Am, N)) => View(heap, output) = Am

C10_Witness ==
    /\ pc = "returned"
    /\ kernel = "none"
    /\ N = 3
    /\ Am # Transpose(Am, N)
    /\ View(heap, output) = Am

====
